---- MODULE Spec2Model ----
(***************************************************************************)
(* Model of the Streamlit image compression tool (src/main.py):            *)
(*   sizeof_fmt, lossless_compression, process_images and main().          *)
(*                                                                         *)
(* Text (file names, format names, formatted sizes, error arguments) is a  *)
(* sequence of one-character strings, so that split, lower, splitext and   *)
(* the %-formatting are modelled by what they do to the characters.        *)
(***************************************************************************)
EXTENDS Integers, Sequences, FiniteSets, TLC

VARIABLES
    disk,              \* the files the user can pick in the upload widget
    processed_images,  \* st.session_state.processed_images (None or a dict)
    uploaded_files,    \* value of st.file_uploader in the latest run of main()
    branch,            \* which path the latest run of main() took
    zip_file,          \* the archive built by the latest run, or None
    gallery,           \* the st.image calls of the latest run, in order
    raised,            \* exception that ended the latest run, or None
    calls,             \* number of process_images calls in the session
    num,               \* argument of a stand-alone sizeof_fmt call
    formatted          \* its result (empty before the call)

vars == <<disk, processed_images, uploaded_files, branch, zip_file, gallery,
          raised, calls, num, formatted>>

\* Python's None, where the other values are records
None == [none |-> TRUE]

\* ------------------------------------------------------------------ bounds

MaxBatch == 2      \* most files in one upload
MaxCalls == 2      \* most process_images calls followed in one session
MaxMant  == 2100   \* sizeof_fmt is applied to m * 1024^e, |m| <= MaxMant
MaxExp   == 8      \*   and 0 <= e <= MaxExp

\* ------------------------------------------------------------ str methods

Uppers == <<"A","B","C","D","E","F","G","H","I","J","K","L","M",
            "N","O","P","Q","R","S","T","U","V","W","X","Y","Z">>
Lowers == <<"a","b","c","d","e","f","g","h","i","j","k","l","m",
            "n","o","p","q","r","s","t","u","v","w","x","y","z">>

LowerChar(c) ==
    IF \E i \in 1..Len(Uppers) : Uppers[i] = c
    THEN Lowers[CHOOSE i \in 1..Len(Uppers) : Uppers[i] = c]
    ELSE c

UpperChar(c) ==
    IF \E i \in 1..Len(Lowers) : Lowers[i] = c
    THEN Uppers[CHOOSE i \in 1..Len(Lowers) : Lowers[i] = c]
    ELSE c

\* str.lower()
lower(s) == [i \in 1..Len(s) |-> LowerChar(s[i])]

\* str.upper() (PIL upper-cases the format name it is given)
upper(s) == [i \in 1..Len(s) |-> UpperChar(s[i])]

\* str.rfind(c), 0-based, -1 when absent
rfind(s, c) ==
    IF \E i \in 1..Len(s) : s[i] = c
    THEN (CHOOSE i \in 1..Len(s) : s[i] = c /\ \A j \in (i+1)..Len(s) : s[j] # c) - 1
    ELSE -1

\* s[a:b] with 0-based a, b
slice(s, a, b) == IF b <= a THEN <<>> ELSE SubSeq(s, a + 1, b)

\* name.split('.')[-1]
split_last(s) == slice(s, rfind(s, ".") + 1, Len(s))

\* os.path.splitext(p): the extension starts at the last dot, unless that dot
\* is not after the last separator or only dots lie between the separator
\* and it (leading dots belong to the root).
splitext(p) ==
    LET sepIndex == rfind(p, "/")
        dotIndex == rfind(p, ".")
    IN  IF dotIndex > sepIndex
           /\ \E f \in (sepIndex + 1)..(dotIndex - 1) : p[f + 1] # "."
        THEN <<slice(p, 0, dotIndex), slice(p, dotIndex, Len(p))>>
        ELSE <<p, <<>>>>

\* -------------------------------------------------------------- sizeof_fmt

\* A number is [m, k], standing for m * 1024^k: every int sizeof_fmt is given
\* here, and every float that "num /= 1024.0" makes of one, is exactly such a
\* value (dividing a double by a power of two is exact).
int_num(n) == [m |-> n, k |-> 0]

Abs(x) == IF x < 0 THEN -x ELSE x

RECURSIVE Pow1024(_)
Pow1024(j) == IF j <= 0 THEN 1 ELSE 1024 * Pow1024(j - 1)

\* Mutant of below_1024: "<=" in place of "<".
below_1024_le(n) ==
    IF n.k > 0 THEN n.m = 0
    ELSE IF n.k < -1 THEN TRUE
    ELSE Abs(n.m) <= Pow1024(1 - n.k)

\* abs(num) < 1024.0 (a mantissa here stays below 1024^2, so the test holds
\* of m * 1024^k for every k < -1)
below_1024(n) ==
    IF n.k > 0 THEN n.m = 0
    ELSE IF n.k < -1 THEN TRUE
    ELSE Abs(n.m) < Pow1024(1 - n.k)

\* num /= 1024.0
div_1024(n) == [m |-> n.m, k |-> n.k - 1]

DigitChars == <<"0","1","2","3","4","5","6","7","8","9">>

\* decimal digits of a natural number
RECURSIVE Digits(_)
Digits(n) ==
    IF n < 10 THEN <<DigitChars[n + 1]>>
    ELSE Append(Digits(n \div 10), DigitChars[(n % 10) + 1])

\* "%<width>.1f" % num: sign, the magnitude rounded to the nearest tenth
\* (ties to the even tenth, which is what a correctly rounded conversion of
\* an exactly represented value gives), left-padded with spaces to width.
format_1f(n, width) ==
    LET numer == Abs(n.m) * 10 * Pow1024(n.k)
        denom == Pow1024(-n.k)
        q     == numer \div denom
        r     == numer % denom
        t     == IF 2 * r > denom \/ (2 * r = denom /\ q % 2 = 1) THEN q + 1 ELSE q
        text  == (IF n.m < 0 THEN <<"-">> ELSE <<>>)
                 \o Digits(t \div 10) \o <<".", DigitChars[(t % 10) + 1]>>
        padn  == IF Len(text) < width THEN width - Len(text) ELSE 0
    IN  [i \in 1..padn |-> " "] \o text

units == << <<>>, <<"K">>, <<"M">>, <<"G">>, <<"T">>, <<"P">>, <<"E">>, <<"Z">> >>

\* the for loop of sizeof_fmt from its i-th unit on, and the final return
RECURSIVE sizeof_fmt_loop(_, _, _)
sizeof_fmt_loop(n, i, suffix) ==
    IF i > Len(units) THEN format_1f(n, 0) \o <<"Y", "i">> \o suffix
    ELSE IF below_1024(n) THEN format_1f(n, 3) \o units[i] \o suffix
    ELSE sizeof_fmt_loop(div_1024(n), i + 1, suffix)

\* sizeof_fmt(num, suffix='B')
sizeof_fmt(n) == sizeof_fmt_loop(n, 1, <<"B">>)

\* ------------------------------------------------------------ PIL as used

PNG  == <<"P", "N", "G">>
JPEG == <<"J", "P", "E", "G">>
PSD  == <<"P", "S", "D">>

\* formats PIL has an encoder for, among those met here (it reads PSD only)
SAVE == {PNG, JPEG}

\* A file's bytes are [magic, mode, pix]: the format whose signature they
\* carry, the pixel mode and the pixel content; bytes no decoder identifies
\* are [garbage].  A file object is [class, data], an UploadedFile also has
\* a name.
BytesIO(data) == [class |-> "BytesIO", data |-> data]

\* repr() of a file object, which PIL puts in the message of its error: an
\* UploadedFile shows its fields, a plain BytesIO only its address.
repr(fp) ==
    IF fp.class = "UploadedFile"
    THEN [class |-> fp.class, name |-> fp.name]
    ELSE [class |-> fp.class]

\* Image.open(fp): identified by content, never by name.
Image_open(fp) ==
    IF "magic" \notin DOMAIN fp.data
    THEN [ok |-> FALSE,
          error |-> [type |-> "UnidentifiedImageError",
                     message |-> [text |-> "cannot identify image file",
                                  fp |-> repr(fp)]]]
    ELSE [ok |-> TRUE,
          img |-> [format |-> fp.data.magic, mode |-> fp.data.mode,
                   pix |-> fp.data.pix]]

\* img.convert('RGB'): a new image of the same pixels; its format attribute
\* is None, so it has no format field.
convert(img, mode) == [mode |-> mode, pix |-> img.pix]

\* Length of the encoder's output for a pixel content, without and with
\* optimize=True.  The encoder decides it; optimizing may save, cost or
\* change nothing.
encoded_size(pix, optimize) ==
    CASE pix = 1 -> IF optimize THEN 3 ELSE 5
      [] pix = 2 -> IF optimize THEN 4 ELSE 3
      [] OTHER   -> 4

\* img.save(buffer, format=..., optimize=...) followed by buffer.getvalue()
Image_save(img, format, optimize) ==
    IF upper(format) \notin SAVE
    THEN [ok |-> FALSE,
          error |-> [type |-> "KeyError", message |-> [key |-> upper(format)]]]
    ELSE [ok |-> TRUE,
          buffer |-> [format |-> upper(format), mode |-> img.mode,
                      pix |-> img.pix, optimize |-> optimize,
                      size |-> encoded_size(img.pix, optimize)]]

\* ---------------------------------------------------- lossless_compression

\* Mutant of lossless_compression: the subtraction the other way round.
lossless_compression_swapped(img, img_format) ==
    LET rgb             == convert(img, "RGB")
        original_buffer == Image_save(rgb, img_format, FALSE)
    IN  IF ~original_buffer.ok THEN original_buffer
        ELSE LET compressed_buffer == Image_save(rgb, img_format, TRUE)
             IN  IF ~compressed_buffer.ok THEN compressed_buffer
                 ELSE [ok |-> TRUE,
                       buffer |-> compressed_buffer.buffer,
                       saved |-> compressed_buffer.buffer.size
                                 - original_buffer.buffer.size]

lossless_compression(img, img_format) ==
    LET rgb             == convert(img, "RGB")
        original_buffer == Image_save(rgb, img_format, FALSE)
    IN  IF ~original_buffer.ok THEN original_buffer
        ELSE LET compressed_buffer == Image_save(rgb, img_format, TRUE)
             IN  IF ~compressed_buffer.ok THEN compressed_buffer
                 ELSE [ok |-> TRUE,
                       buffer |-> compressed_buffer.buffer,
                       saved |-> original_buffer.buffer.size
                                 - compressed_buffer.buffer.size]

\* ---------------------------------------------------------- process_images

\* lines 50-58: the object Image.open is given
opened_object(uploaded_file) ==
    LET img_format == split_last(uploaded_file.name)
    IN  IF lower(img_format) \in {<<"j", "p", "g">>, <<"j", "p", "e", "g">>}
        THEN BytesIO(uploaded_file.data)
        ELSE uploaded_file

\* Mutant of process_one: the format stays the one taken from the file name
\* (line 50), line 61 is missing.
process_one_by_extension(uploaded_file) ==
    LET opened == Image_open(opened_object(uploaded_file))
    IN  IF ~opened.ok THEN opened
        ELSE lossless_compression(opened.img, split_last(uploaded_file.name))

\* lines 50-64 for one file
process_one(uploaded_file) ==
    LET opened == Image_open(opened_object(uploaded_file))
    IN  IF ~opened.ok THEN opened
        ELSE lossless_compression(opened.img, lower(opened.img.format))

\* the for loop from its i-th file on, and the return
RECURSIVE process_loop(_, _, _, _)
process_loop(files, i, compressed_images, space_saved) ==
    IF i > Len(files)
    THEN [ok |-> TRUE, compressed_images |-> compressed_images,
          space_saved |-> space_saved]
    ELSE LET r == process_one(files[i])
         IN  IF ~r.ok THEN r
             ELSE process_loop(files, i + 1,
                               Append(compressed_images, r.buffer),
                               Append(space_saved, r.saved))

\* Mutant of process_images: each result is put in front of the lists.
RECURSIVE process_loop_prepend(_, _, _, _)
process_loop_prepend(files, i, compressed_images, space_saved) ==
    IF i > Len(files)
    THEN [ok |-> TRUE, compressed_images |-> compressed_images,
          space_saved |-> space_saved]
    ELSE LET r == process_one(files[i])
         IN  IF ~r.ok THEN r
             ELSE process_loop_prepend(files, i + 1,
                                       <<r.buffer>> \o compressed_images,
                                       <<r.saved>> \o space_saved)

process_images_prepend(files) == process_loop_prepend(files, 1, <<>>, <<>>)

\* Mutant of process_images: a file that fails is skipped, the loop goes on.
RECURSIVE process_loop_skip(_, _, _, _)
process_loop_skip(files, i, compressed_images, space_saved) ==
    IF i > Len(files)
    THEN [ok |-> TRUE, compressed_images |-> compressed_images,
          space_saved |-> space_saved]
    ELSE LET r == process_one(files[i])
         IN  IF ~r.ok
             THEN process_loop_skip(files, i + 1, compressed_images, space_saved)
             ELSE process_loop_skip(files, i + 1,
                                    Append(compressed_images, r.buffer),
                                    Append(space_saved, r.saved))

process_images_skip(files) == process_loop_skip(files, 1, <<>>, <<>>)

process_images(files) == process_loop(files, 1, <<>>, <<>>)

\* -------------------------------------------------------------------- main

optimized_suffix == <<"_", "o", "p", "t", "i", "m", "i", "z", "e", "d", ".">>

\* lines 103-105
optimized_filename(original_filename) ==
    LET parts         == splitext(original_filename)
        img_extension == slice(parts[2], 1, Len(parts[2]))
    IN  parts[1] \o optimized_suffix \o img_extension

\* lines 99-107: one writestr per compressed image; a ZipFile keeps every
\* entry written to it, also under a name it already holds
build_zip(compressed_images, original_filenames) ==
    [entries |->
        [i \in 1..Len(compressed_images) |->
            [name |-> optimized_filename(original_filenames[i]),
             data |-> compressed_images[i]]]]

\* lines 118-126: the st.image calls, row by row
build_gallery(compressed_images, space_saved, original_filenames) ==
    LET num_images == Len(compressed_images)
        num_rows   == (num_images + 3) \div 4
        cells      == [c \in 1..(num_rows * 4) |-> c - 1]
        shown      == SelectSeq(cells, LAMBDA index : index < num_images)
    IN  [c \in 1..Len(shown) |->
            [row |-> shown[c] \div 4, col |-> shown[c] % 4,
             image |-> compressed_images[shown[c] + 1],
             caption |-> original_filenames[shown[c] + 1]
                         \o <<" -- Space Saved: ">>
                         \o sizeof_fmt(int_num(space_saved[shown[c] + 1]))]]

\* Mutant of needs_processing: every run processes.
needs_processing_always == TRUE

\* line 86
needs_processing == processed_images = None

\* One run of the script with the upload widget holding `files`.
main(files) ==
    /\ uploaded_files' = files
    /\ UNCHANGED <<disk, num, formatted>>
    /\ IF files = <<>>
       THEN /\ branch' = "empty"
            /\ zip_file' = None /\ gallery' = <<>> /\ raised' = None
            /\ UNCHANGED <<processed_images, calls>>
       ELSE IF needs_processing
       THEN /\ calls < MaxCalls
            /\ calls' = calls + 1
            /\ LET r == process_images(files)
               IN  IF ~r.ok
                   THEN /\ branch' = "failed"
                        /\ raised' = r.error
                        /\ zip_file' = None /\ gallery' = <<>>
                        /\ UNCHANGED processed_images
                   ELSE LET names == [i \in 1..Len(files) |-> files[i].name]
                        IN  /\ branch' = "processed"
                            /\ raised' = None
                            /\ processed_images' =
                                 [compressed_images |-> r.compressed_images,
                                  space_saved |-> r.space_saved,
                                  original_filenames |-> names]
                            /\ zip_file' = build_zip(r.compressed_images, names)
                            /\ gallery' = build_gallery(r.compressed_images,
                                                        r.space_saved, names)
       ELSE /\ branch' = "cached"
            /\ raised' = None
            /\ zip_file' = build_zip(processed_images.compressed_images,
                                     processed_images.original_filenames)
            /\ gallery' = build_gallery(processed_images.compressed_images,
                                        processed_images.space_saved,
                                        processed_images.original_filenames)
            /\ UNCHANGED <<processed_images, calls>>

\* ------------------------------------------------------------- the uploads

UploadedFile(name, data) ==
    [class |-> "UploadedFile", name |-> name, data |-> data]

image_bytes(magic, mode, pix) == [magic |-> magic, mode |-> mode, pix |-> pix]

garbage_bytes == [garbage |-> TRUE]

a_png      == <<"a", ".", "p", "n", "g">>
dot_png    == <<".", "p", "n", "g">>
photo_JPEG == <<"p", "h", "o", "t", "o", ".", "J", "P", "E", "G">>
photo_jpeg == <<"p", "h", "o", "t", "o", ".", "j", "p", "e", "g">>
bad_jpg    == <<"b", "a", "d", ".", "j", "p", "g">>
bad_png    == <<"b", "a", "d", ".", "p", "n", "g">>
x_y_png    == <<"x", ".", "y", ".", "p", "n", "g">>
c_jpeg     == <<"c", ".", "j", "p", "e", "g">>

\* What the user may have at hand: two different PNGs of one name and a PNG
\* named ".png"; one JPEG under two spellings of its extension and a PNG
\* named .jpeg; a PNG, a broken .png and a PSD renamed to .png; a JPEG, a
\* broken .jpg and a PNG.
Pools ==
    { { UploadedFile(a_png, image_bytes(PNG, "RGBA", 1)),
        UploadedFile(a_png, image_bytes(PNG, "RGB", 2)),
        UploadedFile(dot_png, image_bytes(PNG, "RGB", 3)) },
      { UploadedFile(photo_JPEG, image_bytes(JPEG, "RGB", 1)),
        UploadedFile(photo_jpeg, image_bytes(JPEG, "RGB", 1)),
        UploadedFile(c_jpeg, image_bytes(PNG, "RGB", 2)) },
      { UploadedFile(a_png, image_bytes(PNG, "RGBA", 1)),
        UploadedFile(bad_png, garbage_bytes),
        UploadedFile(x_y_png, image_bytes(PSD, "RGB", 2)) },
      { UploadedFile(photo_jpeg, image_bytes(JPEG, "RGB", 1)),
        UploadedFile(bad_jpg, garbage_bytes),
        UploadedFile(a_png, image_bytes(PNG, "RGB", 2)) } }

\* every ordered selection of at most MaxBatch files
Batches(pool) == UNION { [1..n -> pool] : n \in 0..MaxBatch }

\* ------------------------------------------------------------ the session

Init ==
    /\ disk \in Pools
    /\ processed_images = None
    /\ uploaded_files = <<>>
    /\ branch = "start"
    /\ zip_file = None
    /\ gallery = <<>>
    /\ raised = None
    /\ calls = 0
    /\ num = None
    /\ formatted = <<>>

Next == \E files \in Batches(disk) : main(files)

Spec == Init /\ [][Next]_vars

\* ------------------------------------------------- sizeof_fmt on its own

\* the integers m * 1024^e (zero written once)
FmtInputs ==
    { n \in [m : (-MaxMant)..MaxMant, k : 0..MaxExp] : n.m = 0 => n.k = 0 }

InitFmt ==
    /\ disk = {}
    /\ processed_images = None
    /\ uploaded_files = <<>>
    /\ branch = "start"
    /\ zip_file = None
    /\ gallery = <<>>
    /\ raised = None
    /\ calls = 0
    /\ num \in FmtInputs
    /\ formatted = <<>>

call_sizeof_fmt ==
    /\ formatted = <<>>
    /\ formatted' = sizeof_fmt(num)
    /\ UNCHANGED <<disk, processed_images, uploaded_files, branch, zip_file,
                   gallery, raised, calls, num>>

NextFmt == call_sizeof_fmt

SpecFmt == InitFmt /\ [][NextFmt]_vars

\* ============================================================== properties

\* the latest run of main() called process_images on uploaded_files
ProcessCalled == branch \in {"processed", "failed"}

\* PIL identifies the bytes of the i-th upload
Decodes(i) == "magic" \in DOMAIN uploaded_files[i].data

\* ... and has an encoder for the format it identifies
Encodes(i) == Decodes(i) /\ uploaded_files[i].data.magic \in SAVE

Uploads == 1..Len(uploaded_files)

\* the i-th result is the optimized encoding of the i-th upload's pixels,
\* with the size difference of that upload's two encodings
ResultOfUpload(i) ==
    LET pix == uploaded_files[i].data.pix
    IN  /\ processed_images.compressed_images[i].pix = pix
        /\ processed_images.compressed_images[i].format
             = uploaded_files[i].data.magic
        /\ processed_images.space_saved[i]
             = encoded_size(pix, FALSE) - encoded_size(pix, TRUE)

\* C1 as stated: whenever process_images is given a batch of N uploads that
\* all decode, it returns N buffers and N space-saved values, the i-th ones
\* computed from the i-th upload.
C1_AllDecodeGivesResults ==
    (ProcessCalled /\ \A i \in Uploads : Decodes(i))
    => /\ branch = "processed"
       /\ Len(processed_images.compressed_images) = Len(uploaded_files)
       /\ Len(processed_images.space_saved) = Len(uploaded_files)
       /\ \A i \in Uploads : ResultOfUpload(i)

\* C1 amended: whenever process_images is given a batch of N uploads that all
\* decode to a format PIL can encode, it returns N buffers and N space-saved
\* values, the i-th ones computed from the i-th upload.
C1_AllEncodeGivesResults ==
    (ProcessCalled /\ \A i \in Uploads : Encodes(i))
    => /\ branch = "processed"
       /\ Len(processed_images.compressed_images) = Len(uploaded_files)
       /\ Len(processed_images.space_saved) = Len(uploaded_files)
       /\ \A i \in Uploads : ResultOfUpload(i)

\* C1 witness: a batch of two uploads with different pixels was processed.
C1_Witness ==
    /\ branch = "processed"
    /\ Len(uploaded_files) = 2
    /\ uploaded_files[1].data.pix # uploaded_files[2].data.pix

\* C2: every result of lossless_compression holds the optimized encoding of
\* the RGB image only, and its space-saved value is the length of the encoding
\* without optimize minus the length of that one, negative when the optimized
\* encoding is the longer.
C2_SavedIsBaselineMinusOptimized ==
    processed_images # None
    => \A i \in 1..Len(processed_images.compressed_images) :
          LET buffer == processed_images.compressed_images[i]
              saved  == processed_images.space_saved[i]
          IN  /\ buffer.optimize
              /\ buffer.mode = "RGB"
              /\ buffer.size = encoded_size(buffer.pix, TRUE)
              /\ saved = encoded_size(buffer.pix, FALSE) - buffer.size
              /\ (buffer.size > encoded_size(buffer.pix, FALSE) => saved < 0)

\* C2 witness: a result whose optimized encoding is the longer one.
C2_Witness ==
    /\ processed_images # None
    /\ \E i \in 1..Len(processed_images.space_saved) :
          processed_images.space_saved[i] < 0

\* C3 as stated: the archive holds one entry per compression result, in
\* order, the i-th holding the i-th result's bytes under the name
\* base + "_optimized." + ext, base and ext being the i-th original filename
\* before and after its last dot.
C3_ArchiveEntries ==
    zip_file # None
    => /\ Len(zip_file.entries) = Len(processed_images.compressed_images)
       /\ \A i \in 1..Len(zip_file.entries) :
             LET name == processed_images.original_filenames[i]
                 dot  == rfind(name, ".")
                 base == slice(name, 0, dot)
                 ext  == slice(name, dot + 1, Len(name))
             IN  /\ zip_file.entries[i].data
                      = processed_images.compressed_images[i]
                 /\ zip_file.entries[i].name = base \o optimized_suffix \o ext

\* C4 as stated: extracting the archive built from a batch of N uploads
\* gives N files, so its N entries have N different names.
C4_ExtractionYieldsAllFiles ==
    branch = "processed"
    => Cardinality({ zip_file.entries[i].name : i \in 1..Len(zip_file.entries) })
         = Len(uploaded_files)

\* C5 as stated: in every run with uploads, the archive, the gallery and the
\* filenames are those of the files uploaded in that run.
C5_ResultsOfCurrentUploads ==
    branch \in {"processed", "cached"}
    => /\ Len(zip_file.entries) = Len(uploaded_files)
       /\ Len(gallery) = Len(uploaded_files)
       /\ \A i \in Uploads :
             /\ Decodes(i)
             /\ zip_file.entries[i].data.pix = uploaded_files[i].data.pix
             /\ gallery[i].image.pix = uploaded_files[i].data.pix
             /\ processed_images.original_filenames[i] = uploaded_files[i].name

\* C6: when process_images is given a batch in which some upload does not
\* decode, the run ends with an error, processed_images stays None and
\* neither an archive nor a gallery is made.
C6_DecodeFailureFailsBatch ==
    (ProcessCalled /\ \E i \in Uploads : ~Decodes(i))
    => /\ branch = "failed"
       /\ raised # None
       /\ processed_images = None
       /\ zip_file = None
       /\ gallery = <<>>

\* C6 witness: the first upload was compressed, the second did not decode.
C6_Witness ==
    /\ branch = "failed"
    /\ Len(uploaded_files) = 2
    /\ Encodes(1)
    /\ ~Decodes(2)

\* C7 as stated: the error that ends process_images names the upload that
\* could not be processed (the first that does not decode or encode).
C7_ErrorNamesFile ==
    raised # None
    => LET bad == CHOOSE i \in Uploads :
                     ~Encodes(i) /\ \A j \in 1..(i - 1) : Encodes(j)
       IN  /\ "fp" \in DOMAIN raised.message
           /\ "name" \in DOMAIN raised.message.fp
           /\ raised.message.fp.name = uploaded_files[bad].name

\* C8: sizeof_fmt(n) is the sign of n, then the magnitude of n scaled by the
\* first power 1024^u, u = 0..7, that brings it below 1024 (by 1024^8 when
\* none does), as the nearest number with one decimal digit, then the u-th of
\* '', K, M, G, T, P, E, Z (Yi for 1024^8), then B; the four examples.
C8_SizeofFmt ==
    formatted # <<>>
    => LET a       == Abs(num.m)
           e       == num.k
           \* a * 1024^e < 1024^(u+1), for a below 1024^2
           Below(u) == \/ a = 0
                       \/ e < u
                       \/ (e = u /\ a < 1024)
           u       == IF \E v \in 0..7 : Below(v)
                      THEN CHOOSE v \in 0..7 :
                              Below(v) /\ \A w \in 0..(v - 1) : ~Below(w)
                      ELSE 8
           unit    == << <<>>, <<"K">>, <<"M">>, <<"G">>, <<"T">>, <<"P">>,
                         <<"E">>, <<"Z">>, <<"Y", "i">> >>[u + 1]
           \* the scaled magnitude, in tenths, is tenths_up / tenths_down
           tenths_up   == a * 10 * Pow1024(e - u)
           tenths_down == Pow1024(u - e)
           floor       == tenths_up \div tenths_down
           Shown(t) == (IF num.m < 0 THEN <<"-">> ELSE <<>>)
                       \o Digits(t \div 10) \o <<".", DigitChars[(t % 10) + 1]>>
                       \o unit \o <<"B">>
       IN  /\ \E t \in {floor, floor + 1} :
                /\ formatted = Shown(t)
                /\ 2 * Abs(t * tenths_down - tenths_up) <= tenths_down
           /\ (num = int_num(0) => formatted = <<"0", ".", "0", "B">>)
           /\ (num = int_num(1023)
                 => formatted = <<"1", "0", "2", "3", ".", "0", "B">>)
           /\ (num = int_num(1024) => formatted = <<"1", ".", "0", "K", "B">>)
           /\ (num = int_num(-2048)
                 => formatted = <<"-", "2", ".", "0", "K", "B">>)

\* C8 witness: sizeof_fmt was applied to -2048.
C8_Witness == num = int_num(-2048) /\ formatted # <<>>

\* C9 as stated: after the first call of process_images no later run calls it
\* again, and each later run with uploads serves the stored results.
C9_ProcessedOnce ==
    [][calls >= 1
         => /\ calls' = calls
            /\ processed_images' = processed_images
            /\ (uploaded_files' # <<>>
                  => /\ zip_file' # None
                     /\ Len(zip_file'.entries)
                          = Len(processed_images.compressed_images))]_vars

\* C9 amended: a run with uploads calls process_images as long as no call has
\* succeeded; once one has, no later run calls it, processed_images does not
\* change, and each later run with uploads builds the archive and the gallery
\* from the stored results.
C9_ProcessedOnceSucceeded ==
    [][/\ (processed_images = None /\ uploaded_files' # <<>>)
            => calls' = calls + 1
       /\ processed_images # None
            => /\ calls' = calls
               /\ processed_images' = processed_images
               /\ (uploaded_files' # <<>>
                     => /\ zip_file' # None
                        /\ Len(zip_file'.entries)
                             = Len(processed_images.compressed_images)
                        /\ Len(gallery')
                             = Len(processed_images.compressed_images)
                        /\ \A i \in 1..Len(processed_images.compressed_images) :
                              /\ zip_file'.entries[i].data
                                   = processed_images.compressed_images[i]
                              /\ gallery'[i].image
                                   = processed_images.compressed_images[i])]_vars

\* C9 witness: the batch that was processed is shown again from the store.
C9_Witness ==
    /\ branch = "cached"
    /\ calls = 1
    /\ Len(uploaded_files) = Len(processed_images.original_filenames)
    /\ \A i \in Uploads :
          /\ uploaded_files[i].name = processed_images.original_filenames[i]
          /\ Decodes(i)
          /\ uploaded_files[i].data.pix
               = processed_images.compressed_images[i].pix

====
